---- MODULE Spec2Model ----
(***************************************************************************)
(* Acquisition-and-durability pipeline of plc_logger_main.py:              *)
(* BufferedFileWriter, PLCConnectionPool and PLCDataLogger (the cycle      *)
(* loop, start_logging / stop_logging, rotation, acquisition).             *)
(*                                                                         *)
(* Threads: thread 0 is the GUI (main) thread that calls start_logging,    *)
(* stop_logging and edits the configuration; threads 1 and 2 are the       *)
(* daemon threads running _logging_thread.  Every thread advances one      *)
(* step at a time; a step is a piece of code between two points where the  *)
(* thread can block or where another thread can observe it.                *)
(***************************************************************************)
EXTENDS Integers, Sequences, FiniteSets, TLC

(***************************************************************************)
(* Bounds of the model.  BATCH_SIZE and HISTORY_LIMIT are module constants *)
(* of the program (10 and 500); they are instantiated small here so that   *)
(* the thresholds are crossed within the explored runs.                    *)
(***************************************************************************)
MaxSamples == 3
MaxFailSamples == 5
MaxReadSamples == 1
MaxDay == 4
MaxVolumes == 2
MaxFileRows == 3
MaxFreeGB == 2
MaxHandles == 3
retention_days == 1
MaxTime == 61
BATCH_SIZE == 2
HISTORY_LIMIT == 2
save_interval == 61

(* Program constants. *)
max_retries == 3
max_consecutive_errors == 5
FLUSH_AGE == 60

(* Python None for a file name (falsy, like ""); Python None as a point value. *)
NoFile == ""
NoneV == -1

(* The value a successful read returns. *)
GoodV == 7

(* The devices and points the operator can configure, in the order the    *)
(* operator adds them.                                                     *)
IPs == <<"A", "B">>
Tags == <<"t1", "t2", "t3">>

(* Thread 0 is the GUI thread; 1 and 2 are the slots of loop threads. *)
Loops == {1, 2}
Threads == {0} \cup Loops
TickSteps == {FLUSH_AGE, FLUSH_AGE + 1}

(* The cleanup threads that can be alive together, and the days a log file  *)
(* can be named after.                                                      *)
Sweepers == {1, 2}
Days == 0..MaxDay

VARIABLES
    running,            \* PLCDataLogger.running
    stop_event,         \* PLCDataLogger.stop_event
    current_filename,   \* PLCDataLogger.current_filename
    last_file_time,     \* PLCDataLogger.last_file_time
    ip_addresses,       \* PLCDataLogger.ip_addresses
    tags_to_log,        \* PLCDataLogger.tags_to_log
    data_queue,         \* PLCDataLogger.data_queue
    data_lock,          \* PLCDataLogger.data_lock: 0 free, t + 1 held by thread t
    buffer,             \* BufferedFileWriter.buffer
    buffered_for,       \* history: the file active when each buffered row was added
    current_file,       \* BufferedFileWriter.current_file
    header,             \* BufferedFileWriter.header
    last_flush,         \* BufferedFileWriter.last_flush
    wlock,              \* BufferedFileWriter._lock: 0 free, t + 1 held by thread t
    write_error,        \* an exception of add_record or flush has reached the caller
    files,              \* the file system: file name -> rows
    connections,        \* PLCConnectionPool.connections (the addresses with a handle)
    now,                \* time.time(), seconds
    stamp,              \* number of Samples produced so far (datetime.now() of the last)
    pc,                 \* per thread: where it is
    ret,                \* per thread: where the subroutine it is in returns to
    loc,                \* per loop thread: the locals of _logging_thread / _read_plc_data
    log_dir,            \* the log directory as cleanup_old_data sees it: per log file
                        \* (named by the day in its name) the raw file and its .gz
    today,              \* datetime.now(), in days
    sweep,              \* per cleanup thread: where it is and the locals of cleanup_old_data
    active,             \* the log file current_filename names, by the day in its name
    pool_lock,          \* PLCConnectionPool._lock: 0 free, t + 1 held by thread t
    pooled,             \* PLCConnectionPool.connections: address -> handle (0: no entry)
    handle_ip,          \* the PLC() objects created so far: handle h has IPAddress handle_ip[h]
    closed,             \* history: the handles on which Close() has been called
    stale,              \* history: the handles that connections.clear() has dropped
    pcall,              \* per thread: where it is in a call of the pool, and its locals
    usb_drives,         \* what discover_usb_drives returns now: the removable volumes in
                        \* the order of enumeration, each with the outcome of its space check
    base_dir            \* the directory current_filename is in: a position in the
                        \* usb_drives enumerated at its creation, or LocalDir

logger_vars == <<running, stop_event, current_filename, last_file_time>>
config_vars == <<ip_addresses, tags_to_log>>
hist_vars == <<data_queue, data_lock>>
writer_vars == <<buffer, buffered_for, current_file, header, last_flush, wlock, write_error>>
thread_vars == <<pc, ret, loc>>
sweep_vars == <<log_dir, today, sweep, active>>
pool_vars == <<pool_lock, pooled, handle_ip, closed, stale, pcall>>
volume_vars == <<usb_drives, base_dir>>
vars == <<running, stop_event, current_filename, last_file_time, ip_addresses,
          tags_to_log, data_queue, data_lock, buffer, buffered_for, current_file,
          header, last_flush, wlock, write_error, files, connections, now, stamp, pc,
          ret, loc, log_dir, today, sweep, active, pool_lock, pooled, handle_ip, closed, stale,
          pcall, usb_drives, base_dir>>

(***************************************************************************)
(* Pure helpers.                                                           *)
(***************************************************************************)

(* f"{ip}_{tag}" *)
Key(ip, tag) == ip \o "_" \o tag

(* str(v): str(None) is "None", str("") is "", a number is its digits. *)
Str(v) == IF v = NoneV THEN "None" ELSE ToString(v)

IPSet == {IPs[i] : i \in 1..Len(IPs)}

(* tags_to_log.get(ip, []): a device without an entry has no tags. *)
TagsOf(ip) == tags_to_log[ip]

RECURSIVE HeaderFrom(_)
(* header = ["timestamp"] + [f"{ip}_{tag}" for ip in ip_addresses for tag in tags] *)
HeaderFrom(n) ==
    IF n = 0 THEN <<"timestamp">>
    ELSE HeaderFrom(n - 1) \o
         [j \in 1..Len(TagsOf(ip_addresses[n])) |-> Key(ip_addresses[n], TagsOf(ip_addresses[n])[j])]

BuildHeader == HeaderFrom(Len(ip_addresses))

(* row = [str(record.get(col, "")) for col in header] *)
MakeRow(record, hdr) ==
    [i \in 1..Len(hdr) |-> IF hdr[i] \in DOMAIN record THEN Str(record[hdr[i]]) ELSE ""]

(* os.path.exists(filename) *)
Exists(f) == f \in DOMAIN files

(* f"plc_data_{timestamp}.csv": the name is the creation time to the second. *)
FileName(time) == "plc_data_" \o ToString(time)

NoSample == [k \in {"timestamp"} |-> 0]
(* The locals of a loop thread: consecutive_errors, data_point, the index  *)
(* of the device being read, retries, the batch offset i and the length of *)
(* tags_to_read.  fails, att and ok are history variables: the number of   *)
(* cycles in a row that ended in the except clause of line 516; and, for   *)
(* the Sample being acquired, per device (by position in ip_addresses) the *)
(* number of read attempts started and whether one of them succeeded; and  *)
(* st, the statuses of the results (by tag position) that the batch read   *)
(* just made has returned; and sleep, the seconds of the time.sleep of     *)
(* line 450 that followed the last failed attempt on the device (0: none). *)
NoAttempts == [i \in 1..Len(IPs) |-> 0]
NoSuccess == [i \in 1..Len(IPs) |-> FALSE]
EmptyLoc == [cerr |-> 0, dp |-> NoSample, idx |-> 0, retries |-> 0, bi |-> 0, n |-> 0,
             fails |-> 0, att |-> NoAttempts, ok |-> NoSuccess, st |-> <<>>, sleep |-> 0]

(* A log file name that is not in the directory: no raw file, no .gz. *)
NoLogFile == [raw |-> FALSE, gz |-> "none", mtime |-> 0]

(* A thread that is not inside a call of the connection pool.  conn is the *)
(* handle its last get_connection returned (0: none), todo the entries     *)
(* close_all has still to visit, logged whether its close_all has logged   *)
(* an error of Close (line 121), raised whether an exception has left the  *)
(* call.                                                                   *)
NoCall == [pc |-> "idle", ip |-> "", conn |-> 0, todo |-> {}, logged |-> FALSE,
           raised |-> FALSE]

(* Line 38. *)
MIN_DISK_SPACE_GB == 1

(* The directory of no file: current_filename is None (lines 169, 360). *)
NoDir == -1

(* The local "logs" directory of line 335. *)
LocalDir == 0

(* The states a removable volume can be in: the space check raises (ok is  *)
(* FALSE), or it returns the free space, here in whole GB.                 *)
Volumes == [ok : BOOLEAN, free_gb : 0..MaxFreeGB]

(* The lists discover_usb_drives can return, lines 542-590. *)
RECURSIVE VolumeLists(_)
VolumeLists(n) ==
    IF n = 0 THEN {<<>>}
    ELSE VolumeLists(n - 1) \cup
         {Append(l, v) : l \in {m \in VolumeLists(n - 1) : Len(m) = n - 1}, v \in Volumes}

(* No log file has been created yet: current_filename is None (line 169). *)
NoDay == -1

(* A cleanup thread that has not been started. *)
IdleSweep == [pc |-> "idle", cutoff_date |-> 0, file |-> 0, todo |-> {}, err |-> FALSE,
              clobbered |-> FALSE]

(***************************************************************************)
(* The state after PLCDataLogger.__init__ (lines 146-179) and             *)
(* BufferedFileWriter.__init__ (lines 42-48), with the devices ips and the *)
(* tags tagmap configured by the operator and the loop-thread slots in     *)
(* slots available.                                                        *)
(***************************************************************************)
Constructed(ips, tagmap, slots) ==
    /\ running = FALSE
    /\ stop_event = FALSE
    /\ current_filename = NoFile
    /\ last_file_time = 0
    /\ ip_addresses = ips
    /\ tags_to_log = tagmap
    /\ data_queue = <<>>
    /\ data_lock = 0
    /\ buffer = <<>>
    /\ buffered_for = <<>>
    /\ current_file = NoFile
    /\ header = <<>>
    /\ last_flush = 0
    /\ wlock = 0
    /\ write_error = FALSE
    /\ files = [f \in {} |-> <<>>]
    /\ connections = {}
    /\ now = 0
    /\ stamp = 0
    /\ pc = [t \in Threads |-> IF t = 0 THEN "idle" ELSE IF t \in slots THEN "none" ELSE "off"]
    /\ ret = [t \in Threads |-> "idle"]
    /\ loc = [t \in Loops |-> EmptyLoc]
    /\ log_dir = [f \in Days |-> NoLogFile]
    /\ today = 0
    /\ sweep = [s \in Sweepers |-> IdleSweep]
    /\ active = NoDay
    /\ usb_drives = <<>>
    /\ base_dir = NoDir
    /\ pool_lock = 0
    /\ pooled = [ip \in IPSet |-> 0]
    /\ handle_ip = <<>>
    /\ closed = {}
    /\ stale = {}
    /\ pcall = [t \in Threads |-> NoCall]

NoTags == [ip \in IPSet |-> <<>>]
OneTag == [ip \in IPSet |-> IF ip = IPs[1] THEN <<Tags[1]>> ELSE <<>>]

(* A lock that never makes a caller wait. *)
AcquireUnlocked(lock, t) == TRUE

(***************************************************************************)
(* threading.Lock: not reentrant.  acquire() succeeds only when nobody     *)
(* holds the lock, the calling thread included.                            *)
(***************************************************************************)
CanAcquire(lock, t) == lock = 0

(***************************************************************************)
(* BufferedFileWriter                                                      *)
(***************************************************************************)

(* set_file that opens the file for writing whether it exists or not. *)
SetFileBodyTruncating(filename, hdr, created) ==
    /\ current_file' = filename
    /\ header' = hdr
    /\ files' = IF created
                 THEN [f \in DOMAIN files \cup {filename} |->
                          IF f = filename THEN <<hdr>> ELSE files[f]]
                 ELSE files

(* set_file, lines 50-64: one critical section of the writer's lock.      *)
(* created: whether makedirs/open succeed when the file does not exist.    *)
SetFileBody(filename, hdr, created) ==
    /\ current_file' = filename
    /\ header' = hdr
    /\ files' = IF ~Exists(filename) /\ created
                 THEN files @@ (filename :> <<hdr>>)
                 ELSE files

(* flush without the early return of lines 82-83 for an empty buffer. *)
FlushBodyAlways(written) ==
    IF current_file = NoFile \/ ~written
    THEN UNCHANGED <<buffer, buffered_for, last_flush, files>>
    ELSE /\ files' = IF Exists(current_file)
                      THEN [files EXCEPT ![current_file] = @ \o buffer]
                      ELSE files @@ (current_file :> buffer)
         /\ buffer' = <<>>
         /\ buffered_for' = <<>>
         /\ last_flush' = now

(* The body of flush once it holds the lock, lines 82-92.  written: whether *)
(* open(current_file, 'a') and writerows succeed; 'a' creates the file.    *)
(* A failure is logged at line 92 and not raised.                          *)
FlushBody(written) ==
    IF buffer = <<>> \/ current_file = NoFile \/ ~written
    THEN UNCHANGED <<buffer, buffered_for, last_flush, files>>
    ELSE /\ files' = IF Exists(current_file)
                      THEN [files EXCEPT ![current_file] = @ \o buffer]
                      ELSE files @@ (current_file :> buffer)
         /\ buffer' = <<>>
         /\ buffered_for' = <<>>
         /\ last_flush' = now

(* The flush condition of add_record, line 74, on the buffer after append. *)
FlushDue(buf) == Len(buf) >= BATCH_SIZE \/ (now - last_flush) > FLUSH_AGE

(* flush(), lines 79-92: called by stop_logging (pc "stop_flush") and by   *)
(* add_record while it holds the lock (pc "ar_flush"); both block on       *)
(* "with self._lock".  Returning into add_record leaves add_record's own   *)
(* "with" block as well, which releases the lock.  W: the outcomes of the  *)
(* write the environment can produce.                                      *)
Flush(t, W) ==
    /\ pc[t] \in {"stop_flush", "ar_flush"}
    /\ CanAcquire(wlock, t)
    /\ \E written \in W : FlushBody(written)
    /\ wlock' = 0
    /\ pc' = [pc EXCEPT ![t] = IF pc[t] = "stop_flush" THEN "stop_close" ELSE "callback"]
    /\ UNCHANGED <<volume_vars, pool_vars, sweep_vars, logger_vars, config_vars, hist_vars, current_file, header, write_error,
                   connections, now, stamp, ret, loc>>

(* flush(), lines 79-92, when writerows or the close of the file raises     *)
(* after rows have reached the file (the disk fills up, the volume is      *)
(* removed): the first n rows of the buffer are in the file, the except    *)
(* clause of line 91 logs the error, and lines 88-89 have not run.  Such   *)
(* failures are explored while the file holds fewer than MaxFileRows rows. *)
FlushFailsPartway(t) ==
    /\ pc[t] \in {"stop_flush", "ar_flush"}
    /\ CanAcquire(wlock, t)
    /\ buffer # <<>>
    /\ current_file # NoFile
    /\ \E n \in 1..Len(buffer) :
         IF Exists(current_file)
         THEN /\ Len(files[current_file]) + n <= MaxFileRows
              /\ files' = [files EXCEPT ![current_file] = @ \o SubSeq(buffer, 1, n)]
         ELSE files' = files @@ (current_file :> SubSeq(buffer, 1, n))
    /\ wlock' = 0
    /\ pc' = [pc EXCEPT ![t] = IF pc[t] = "stop_flush" THEN "stop_close" ELSE "callback"]
    /\ UNCHANGED <<volume_vars, pool_vars, sweep_vars, logger_vars, config_vars, hist_vars, buffer,
                   buffered_for, current_file, header, last_flush, write_error, connections, now,
                   stamp, ret, loc>>

(***************************************************************************)
(* PLCDataLogger._create_new_logfile, lines 302-360.                       *)
(***************************************************************************)

(* A volume is taken only with more than the minimum of free space. *)
HasSpaceStrict(v) == v.ok /\ v.free_gb > MIN_DISK_SPACE_GB

(* Lines 313-331: the space check of a volume did not raise and found at   *)
(* least MIN_DISK_SPACE_GB free.                                           *)
HasSpace(v) == v.ok /\ v.free_gb >= MIN_DISK_SPACE_GB

(* Lines 310-336: the for loop over the enumerated volumes from position i *)
(* on, which breaks at the first with enough space, and the fallback to    *)
(* the local directory.                                                    *)
RECURSIVE ChooseBaseDir(_, _)
ChooseBaseDir(drives, i) ==
    IF i > Len(drives) THEN LocalDir
    ELSE IF HasSpace(drives[i]) THEN i
    ELSE ChooseBaseDir(drives, i + 1)

(* Lines 304-343: choose the directory and the name.  An exception here    *)
(* (makedirs fails) is caught at line 358 and leaves no current file.      *)
CreateNewLogfile(t, K) ==
    /\ pc[t] = "cnl"
    /\ \E ok \in K :
         IF ok
         THEN /\ current_filename' = FileName(now)
              /\ base_dir' = ChooseBaseDir(usb_drives, 1)
              /\ last_file_time' = now
              /\ pc' = [pc EXCEPT ![t] = "cnl_set"]
         ELSE /\ current_filename' = NoFile
              /\ base_dir' = NoDir
              /\ pc' = [pc EXCEPT ![t] = ret[t]]
              /\ UNCHANGED last_file_time
    /\ UNCHANGED <<usb_drives, pool_vars, sweep_vars, running, stop_event, config_vars, hist_vars, writer_vars, files,
                   connections, now, stamp, ret, loc>>

(* Lines 345-353: build the header from the configuration and call         *)
(* file_writer.set_file, which blocks on the writer's lock.                *)
SetFile(t, C) ==
    /\ pc[t] = "cnl_set"
    /\ CanAcquire(wlock, t)
    /\ \E created \in C : SetFileBody(current_filename, BuildHeader, created)
    /\ pc' = [pc EXCEPT ![t] = ret[t]]
    /\ UNCHANGED <<volume_vars, pool_vars, sweep_vars, logger_vars, config_vars, hist_vars, buffer, buffered_for, last_flush,
                   wlock, write_error, connections, now, stamp, ret, loc>>

(***************************************************************************)
(* PLCDataLogger.start_logging, lines 841-859 (GUI thread).                *)
(***************************************************************************)
FreeSlots == {t \in Loops : pc[t] = "none"}

StartLogging ==
    /\ pc[0] = "idle"
    /\ ~running
    /\ FreeSlots # {}
    /\ running' = TRUE
    /\ stop_event' = FALSE
    /\ pc' = [pc EXCEPT ![0] = "cnl"]
    /\ ret' = [ret EXCEPT ![0] = "spawn"]
    /\ UNCHANGED <<volume_vars, pool_vars, sweep_vars, current_filename, last_file_time, config_vars, hist_vars, writer_vars,
                   files, connections, now, stamp, loc>>

(* start_logging without the test of line 847. *)
StartLoggingAnyway ==
    /\ pc[0] = "idle"
    /\ running
    /\ FreeSlots # {}
    /\ stop_event' = FALSE
    /\ pc' = [pc EXCEPT ![0] = "cnl"]
    /\ ret' = [ret EXCEPT ![0] = "spawn"]
    /\ UNCHANGED <<volume_vars, pool_vars, sweep_vars, running, current_filename, last_file_time, config_vars,
                   hist_vars, writer_vars, files, connections, now, stamp, loc>>

(* Lines 847-848: start_logging is called while running is set: it returns *)
(* at once.                                                                *)
StartLoggingRunning ==
    /\ pc[0] = "idle"
    /\ running
    /\ pc' = [pc EXCEPT ![0] = "start_ret"]
    /\ UNCHANGED <<volume_vars, pool_vars, sweep_vars, logger_vars, config_vars, hist_vars, writer_vars, files,
                   connections, now, stamp, ret, loc>>

(* Lines 863-864: stop_logging is called while running is not set: it      *)
(* returns at once.                                                        *)
StopLoggingIdle ==
    /\ pc[0] = "idle"
    /\ ~running
    /\ pc' = [pc EXCEPT ![0] = "stop_ret"]
    /\ UNCHANGED <<volume_vars, pool_vars, sweep_vars, logger_vars, config_vars, hist_vars, writer_vars, files,
                   connections, now, stamp, ret, loc>>

(* The call that returned at once is over: the GUI thread is idle again. *)
EarlyReturn ==
    /\ pc[0] \in {"start_ret", "stop_ret"}
    /\ pc' = [pc EXCEPT ![0] = "idle"]
    /\ UNCHANGED <<volume_vars, pool_vars, sweep_vars, logger_vars, config_vars, hist_vars, writer_vars, files,
                   connections, now, stamp, ret, loc>>

(* Line 857: threading.Thread(target=self._logging_thread).start() *)
SpawnLoop ==
    /\ pc[0] = "spawn"
    /\ LET t == CHOOSE s \in FreeSlots : \A u \in FreeSlots : s <= u
       IN /\ pc' = [pc EXCEPT ![0] = "idle", ![t] = "top"]
          /\ loc' = [loc EXCEPT ![t] = EmptyLoc]
    /\ UNCHANGED <<volume_vars, pool_vars, sweep_vars, logger_vars, config_vars, hist_vars, writer_vars, files, connections,
                   now, stamp, ret>>

(***************************************************************************)
(* PLCDataLogger.stop_logging, lines 861-884: run by the GUI thread, and   *)
(* by a loop thread when the circuit breaker trips (line 522).             *)
(***************************************************************************)
StopLogging ==
    /\ pc[0] = "idle"
    /\ running
    /\ stop_event' = TRUE
    /\ running' = FALSE
    /\ pc' = [pc EXCEPT ![0] = "stop_flush"]
    /\ ret' = [ret EXCEPT ![0] = "idle"]
    /\ UNCHANGED <<volume_vars, pool_vars, sweep_vars, current_filename, last_file_time, config_vars, hist_vars, writer_vars,
                   files, connections, now, stamp, loc>>

(* PLCConnectionPool.close_all, lines 113-122, called at line 878. *)
CloseAll(t) ==
    /\ pc[t] = "stop_close"
    /\ connections' = {}
    /\ pc' = [pc EXCEPT ![t] = "stop_sleep"]
    /\ UNCHANGED <<volume_vars, pool_vars, sweep_vars, logger_vars, config_vars, hist_vars, writer_vars, files, now, stamp,
                   ret, loc>>

(* Line 884, time.sleep(1), then stop_logging returns to its caller: the   *)
(* GUI, or the loop thread, which breaks out of the loop and ends.         *)
StopReturn(t) ==
    /\ pc[t] = "stop_sleep"
    /\ pc' = [pc EXCEPT ![t] = IF t = 0 THEN "idle" ELSE "none"]
    /\ loc' = IF t = 0 THEN loc ELSE [loc EXCEPT ![t] = EmptyLoc]
    /\ UNCHANGED <<volume_vars, pool_vars, sweep_vars, logger_vars, config_vars, hist_vars, writer_vars, files, connections,
                   now, stamp, ret>>

(***************************************************************************)
(* BufferedFileWriter.add_record, lines 66-77, as called at lines 493-503. *)
(* The header is rebuilt from the configuration at every cycle.  When the  *)
(* flush condition holds, add_record calls self.flush() while it still     *)
(* holds the lock (pc "ar_flush").  add_record catches every exception     *)
(* (line 76), so the except clause of lines 504-507 is never entered.      *)
(***************************************************************************)
WriteRecord(t) ==
    /\ pc[t] = "write"
    /\ IF current_filename = NoFile
       THEN /\ pc' = [pc EXCEPT ![t] = "callback"]
            /\ UNCHANGED <<buffer, buffered_for, wlock>>
       ELSE /\ CanAcquire(wlock, t)
            /\ buffer' = Append(buffer, MakeRow(loc[t].dp, BuildHeader))
            /\ buffered_for' = Append(buffered_for, current_file)
            /\ IF FlushDue(buffer')
               THEN /\ wlock' = t + 1
                    /\ pc' = [pc EXCEPT ![t] = "ar_flush"]
               ELSE /\ wlock' = 0
                    /\ pc' = [pc EXCEPT ![t] = "callback"]
    /\ UNCHANGED <<volume_vars, pool_vars, sweep_vars, logger_vars, config_vars, hist_vars, current_file, header, last_flush,
                   write_error, files, connections, now, stamp, ret, loc>>

(***************************************************************************)
(* PLCDataLogger._check_file_rotation, lines 278-300.  big: the size of    *)
(* the file is over 100 MB, or the size cannot be read.                    *)
(***************************************************************************)
(* _check_file_rotation that rotates only once more than save_interval has *)
(* elapsed.                                                                *)
RotationDueStrict(big) ==
    \/ current_filename = NoFile
    \/ ~Exists(current_filename)
    \/ big
    \/ now - last_file_time > save_interval

RotationDue(big) ==
    \/ current_filename = NoFile
    \/ ~Exists(current_filename)
    \/ big
    \/ now - last_file_time >= save_interval

(***************************************************************************)
(* PLCDataLogger._logging_thread, lines 460-533.                           *)
(***************************************************************************)

(* Lines 466-475: the loop test, the resource check and the rotation check. *)
LoopTop(t, R, B) ==
    /\ pc[t] = "top"
    /\ IF stop_event
       THEN /\ pc' = [pc EXCEPT ![t] = "none"]
            /\ loc' = [loc EXCEPT ![t] = EmptyLoc]
            /\ UNCHANGED ret
       ELSE \E resources_ok \in R, big \in B :
              /\ UNCHANGED loc
              /\ IF ~resources_ok
                 THEN /\ pc' = [pc EXCEPT ![t] = "rsleep"]
                      /\ UNCHANGED ret
                 ELSE IF RotationDue(big)
                 THEN /\ pc' = [pc EXCEPT ![t] = "cnl"]
                      /\ ret' = [ret EXCEPT ![t] = "read"]
                 ELSE /\ pc' = [pc EXCEPT ![t] = "read"]
                      /\ UNCHANGED ret
    /\ UNCHANGED <<volume_vars, pool_vars, sweep_vars, logger_vars, config_vars, hist_vars, writer_vars, files, connections,
                   now, stamp>>

(* The sleep without the "continue": the cycle goes on to the read. *)
ResourceSleepThenRead(t) ==
    /\ pc[t] = "rsleep"
    /\ pc' = [pc EXCEPT ![t] = "read"]
    /\ loc' = [loc EXCEPT ![t].fails = 0]
    /\ UNCHANGED <<volume_vars, pool_vars, sweep_vars, logger_vars, config_vars, hist_vars, writer_vars, files,
                   connections, now, stamp, ret>>

(* Lines 470-471: time.sleep(30); continue *)
ResourceSleep(t) ==
    /\ pc[t] = "rsleep"
    /\ pc' = [pc EXCEPT ![t] = "top"]
    /\ loc' = [loc EXCEPT ![t].fails = 0]
    /\ UNCHANGED <<volume_vars, pool_vars, sweep_vars, logger_vars, config_vars, hist_vars, writer_vars, files, connections,
                   now, stamp, ret>>

(***************************************************************************)
(* PLCDataLogger._read_plc_data, lines 398-458.                            *)
(***************************************************************************)

(* Line 400: the Sample starts with its timestamp.  cap bounds the number *)
(* of Samples of a run.                                                    *)
ReadBegin(t, cap) ==
    /\ pc[t] = "read"
    /\ stamp < cap
    /\ stamp' = stamp + 1
    /\ loc' = [loc EXCEPT ![t].dp = [k \in {"timestamp"} |-> stamp + 1],
                          ![t].idx = 1, ![t].retries = 0, ![t].bi = 0, ![t].n = 0,
                          ![t].att = NoAttempts, ![t].ok = NoSuccess]
    /\ pc' = [pc EXCEPT ![t] = "while"]
    /\ UNCHANGED <<volume_vars, pool_vars, sweep_vars, logger_vars, config_vars, hist_vars, writer_vars, files, connections,
                   now, ret>>

(* Mark as failed only the tags of the device that have no value yet. *)
MarkMissing(dp, ip) ==
    [k \in DOMAIN dp \cup {Key(ip, TagsOf(ip)[j]) : j \in 1..Len(TagsOf(ip))} |->
        IF k \in DOMAIN dp THEN dp[k] ELSE NoneV]

(* Mark every tag of the device as failed, lines 454-456. *)
MarkAll(dp, ip) ==
    [k \in DOMAIN dp \cup {Key(ip, TagsOf(ip)[j]) : j \in 1..Len(TagsOf(ip))} |->
        IF k \in {Key(ip, TagsOf(ip)[j]) : j \in 1..Len(TagsOf(ip))} THEN NoneV ELSE dp[k]]

(* The condition of the while loop, line 408, for a device not yet read    *)
(* with success, without the cancellation signal.                          *)
MayAttemptIgnoringStop(retries, stop) == retries < max_retries

(* The condition of the while loop, line 408, for a device not yet read    *)
(* with success.                                                           *)
MayAttempt(retries, stop) == retries < max_retries /\ ~stop

(* Lines 404-413: the for loop over the devices and the test of the while  *)
(* loop.  When the devices are exhausted the Sample is returned and the    *)
(* error counter is reset (line 481).                                      *)
RetryTest(t) ==
    /\ pc[t] = "while"
    /\ LET l == loc[t] IN
       IF l.idx > Len(ip_addresses)
       THEN /\ loc' = [loc EXCEPT ![t].cerr = 0, ![t].idx = 0, ![t].retries = 0,
                                  ![t].st = <<>>, ![t].sleep = 0]
            /\ pc' = [pc EXCEPT ![t] = "hist"]
       ELSE LET ip == ip_addresses[l.idx] IN
            IF MayAttempt(l.retries, stop_event) /\ TagsOf(ip) # <<>>
            THEN /\ loc' = [loc EXCEPT ![t].bi = 0, ![t].n = Len(TagsOf(ip)),
                                       ![t].att[l.idx] = @ + 1, ![t].st = <<>>,
                                       ![t].sleep = 0]
                 /\ pc' = [pc EXCEPT ![t] = "conn"]
            ELSE /\ loc' = [loc EXCEPT ![t].idx = l.idx + 1, ![t].retries = 0,
                                       ![t].st = <<>>, ![t].sleep = 0]
                 /\ pc' = [pc EXCEPT ![t] = "while"]
    /\ UNCHANGED <<volume_vars, pool_vars, sweep_vars, logger_vars, config_vars, hist_vars, writer_vars, files,
                   connections, now, stamp, ret>>

(* Line 416: comm = self.connection_pool.get_connection(ip), a step of its *)
(* own after the loop test: the pool gets a handle for the address if it   *)
(* has none.                                                               *)
GetConn(t) ==
    /\ pc[t] = "conn"
    /\ connections' = connections \cup {ip_addresses[loc[t].idx]}
    /\ pc' = [pc EXCEPT ![t] = "batch"]
    /\ UNCHANGED <<volume_vars, pool_vars, sweep_vars, logger_vars, config_vars, hist_vars, writer_vars, files,
                   now, stamp, ret, loc>>

(* The positions of tags_to_read[i:i+BATCH_SIZE]. *)
BatchPositions(i, tags) == {j \in 1..Len(tags) : i < j /\ j <= i + BATCH_SIZE}

(* A batch with a failed result is recorded as failed as a whole. *)
RecordAllOrNothing(dp, ip, tags, pos, status) ==
    [k \in DOMAIN dp \cup {Key(ip, tags[j]) : j \in pos} |->
        IF \E j \in pos : k = Key(ip, tags[j])
        THEN IF \A j \in pos : status[j] THEN GoodV ELSE NoneV
        ELSE dp[k]]

(* Lines 425-441: each result is recorded by its own status. *)
Record(dp, ip, tags, pos, status) ==
    [k \in DOMAIN dp \cup {Key(ip, tags[j]) : j \in pos} |->
        IF \E j \in pos : k = Key(ip, tags[j])
        THEN LET j == CHOOSE j \in pos : k = Key(ip, tags[j])
             IN IF status[j] THEN GoodV ELSE NoneV
        ELSE dp[k]]

(* Line 402. *)
retry_delay == 5

(* A wait of the same length after every failed attempt. *)
RetryDelayFlat(retries) == retry_delay

(* Line 450: the argument of time.sleep, from the counter incremented at   *)
(* line 446.                                                               *)
RetryDelay(retries) == retry_delay * retries

(* Lines 419-456: comm.Read(batch) for one batch.  It either raises (the   *)
(* except clause of line 445 runs) or returns one result per tag.  X: TRUE *)
(* in X when the read can raise; S: the statuses a result can have (TRUE   *)
(* is "Success").                                                          *)
ReadBatch(t, X, S) ==
    /\ pc[t] = "batch"
    /\ LET l == loc[t]
           ip == ip_addresses[l.idx]
           tags == TagsOf(ip)
           pos == BatchPositions(l.bi, tags)
       IN \/ /\ TRUE \in X
             /\ l.retries + 1 < max_retries /\ ~stop_event
             /\ loc' = [loc EXCEPT ![t].retries = l.retries + 1, ![t].st = <<>>,
                                   ![t].sleep = RetryDelay(l.retries + 1)]
             /\ pc' = [pc EXCEPT ![t] = "retry_sleep"]
          \/ /\ TRUE \in X
             /\ ~(l.retries + 1 < max_retries /\ ~stop_event)
             /\ loc' = [loc EXCEPT ![t].retries = l.retries + 1, ![t].st = <<>>,
                                   ![t].dp = MarkAll(l.dp, ip)]
             /\ pc' = [pc EXCEPT ![t] = "while"]
          \/ \E status \in [pos -> S] :
               /\ IF l.bi + BATCH_SIZE >= l.n
                  THEN /\ loc' = [loc EXCEPT ![t].dp = Record(l.dp, ip, tags, pos, status),
                                             ![t].idx = l.idx + 1, ![t].retries = 0,
                                             ![t].bi = 0, ![t].n = 0,
                                             ![t].ok[l.idx] = TRUE, ![t].st = status]
                       /\ pc' = [pc EXCEPT ![t] = "while"]
                  ELSE /\ loc' = [loc EXCEPT ![t].dp = Record(l.dp, ip, tags, pos, status),
                                             ![t].bi = l.bi + BATCH_SIZE, ![t].st = status]
                       /\ pc' = [pc EXCEPT ![t] = "batch"]
    /\ UNCHANGED <<volume_vars, pool_vars, sweep_vars, logger_vars, config_vars, hist_vars, writer_vars, files, connections,
                   now, stamp, ret>>

(* Line 450: time.sleep(retry_delay * retries), not interruptible. *)
RetrySleep(t) ==
    /\ pc[t] = "retry_sleep"
    /\ pc' = [pc EXCEPT ![t] = "while"]
    /\ UNCHANGED <<volume_vars, pool_vars, sweep_vars, logger_vars, config_vars, hist_vars, writer_vars, files, connections,
                   now, stamp, ret, loc>>

(***************************************************************************)
(* History, lines 483-491: under data_lock, evict the oldest Sample when   *)
(* the queue is at HISTORY_LIMIT, then put the new one.                    *)
(***************************************************************************)
MAX_QUEUE_SIZE == HISTORY_LIMIT * 2

(* The eviction test with the comparison off by one. *)
AtCapacityOffByOne(q) == Len(q) > HISTORY_LIMIT

(* Line 485: the eviction test. *)
AtCapacity(q) == Len(q) >= HISTORY_LIMIT

(* Lines 484-490: with self.data_lock; get_nowait() when at capacity. *)
HistEvict(t) ==
    /\ pc[t] = "hist"
    /\ CanAcquire(data_lock, t)
    /\ data_lock' = t + 1
    /\ data_queue' = IF AtCapacity(data_queue) THEN Tail(data_queue) ELSE data_queue
    /\ pc' = [pc EXCEPT ![t] = "hist_put"]
    /\ loc' = [loc EXCEPT ![t].att = NoAttempts, ![t].ok = NoSuccess]
    /\ UNCHANGED <<volume_vars, pool_vars, sweep_vars, logger_vars, config_vars, writer_vars, files, connections, now, stamp,
                   ret>>

(* Line 491: put(data_point), which blocks while the queue is full, then   *)
(* the lock is released.                                                   *)
HistPut(t) ==
    /\ pc[t] = "hist_put"
    /\ Len(data_queue) < MAX_QUEUE_SIZE
    /\ data_queue' = Append(data_queue, loc[t].dp)
    /\ data_lock' = 0
    /\ pc' = [pc EXCEPT ![t] = "write"]
    /\ UNCHANGED <<volume_vars, pool_vars, sweep_vars, logger_vars, config_vars, writer_vars, files, connections, now, stamp,
                   ret, loc>>

(* PLCLoggerGUI._update_monitor, lines 983-989: the reader takes data_lock. *)
MonitorEnter ==
    /\ pc[0] = "idle"
    /\ CanAcquire(data_lock, 0)
    /\ data_queue # <<>>
    /\ data_lock' = 1
    /\ pc' = [pc EXCEPT ![0] = "mon"]
    /\ UNCHANGED <<volume_vars, pool_vars, sweep_vars, logger_vars, config_vars, data_queue, writer_vars, files, connections,
                   now, stamp, ret, loc>>

MonitorLeave ==
    /\ pc[0] = "mon"
    /\ data_lock' = 0
    /\ pc' = [pc EXCEPT ![0] = "idle"]
    /\ UNCHANGED <<volume_vars, pool_vars, sweep_vars, logger_vars, config_vars, data_queue, writer_vars, files, connections,
                   now, stamp, ret, loc>>

(* Lines 509-511: update_callback(data_point) returns normally. *)
Callback(t) ==
    /\ pc[t] = "callback"
    /\ pc' = [pc EXCEPT ![t] = "wait"]
    /\ loc' = [loc EXCEPT ![t].dp = NoSample, ![t].att = NoAttempts, ![t].ok = NoSuccess]
    /\ UNCHANGED <<volume_vars, pool_vars, sweep_vars, logger_vars, config_vars, hist_vars, writer_vars, files, connections,
                   now, stamp, ret>>

(* _wait_for_next_sample, lines 535-540: it ends when the interval is over *)
(* or when it sees stop_event; either way the loop test comes next.        *)
WaitForNextSample(t) ==
    /\ pc[t] = "wait"
    /\ pc' = [pc EXCEPT ![t] = "top"]
    /\ loc' = [loc EXCEPT ![t].fails = 0]
    /\ UNCHANGED <<volume_vars, pool_vars, sweep_vars, logger_vars, config_vars, hist_vars, writer_vars, files, connections,
                   now, stamp, ret>>

(***************************************************************************)
(* Lines 516-533: an exception escapes a step of the try block.  The       *)
(* counter is incremented; at max_consecutive_errors the thread calls      *)
(* stop_logging (which returns at once when running is already false) and  *)
(* breaks; otherwise it backs off.                                         *)
(***************************************************************************)
RaisePcs == {"top", "read", "hist", "write", "callback", "wait"}

(* Line 520: the breaker test on the incremented counter. *)
BreakerTrips(n) == n >= max_consecutive_errors

Raise(t) ==
    /\ pc[t] \in RaisePcs
    /\ ~(pc[t] = "top" /\ stop_event)
    /\ IF BreakerTrips(loc[t].cerr + 1) /\ ~running
       THEN loc' = [loc EXCEPT ![t] = EmptyLoc]
       ELSE loc' = [loc EXCEPT ![t].cerr = @ + 1, ![t].fails = @ + 1,
                               ![t].dp = NoSample, ![t].idx = 0, ![t].retries = 0,
                               ![t].bi = 0, ![t].n = 0, ![t].att = NoAttempts,
                               ![t].ok = NoSuccess]
    /\ IF BreakerTrips(loc[t].cerr + 1)
       THEN IF running
            THEN /\ stop_event' = TRUE
                 /\ running' = FALSE
                 /\ pc' = [pc EXCEPT ![t] = "stop_flush"]
            ELSE /\ pc' = [pc EXCEPT ![t] = "none"]
                 /\ UNCHANGED <<running, stop_event>>
       ELSE /\ pc' = [pc EXCEPT ![t] = "backoff"]
            /\ UNCHANGED <<running, stop_event>>
    /\ UNCHANGED <<volume_vars, pool_vars, sweep_vars, current_filename, last_file_time, config_vars, hist_vars, writer_vars,
                   files, connections, now, stamp, ret>>

(* Line 464. *)
error_delay == 30

(* Line 526: the seconds the backoff wait of lines 530-533 lasts when it is *)
(* not cancelled, from the counter incremented at line 517.                *)
BackoffTime(consecutive_errors) == error_delay * 2 ^ (consecutive_errors - 1)

(* Lines 530-533: the backoff wait ends, or sees stop_event. *)
Backoff(t) ==
    /\ pc[t] = "backoff"
    /\ pc' = [pc EXCEPT ![t] = "top"]
    /\ UNCHANGED <<volume_vars, pool_vars, sweep_vars, logger_vars, config_vars, hist_vars, writer_vars, files, connections,
                   now, stamp, ret, loc>>

(***************************************************************************)
(* Configuration changes made from the GUI while idle or logging.          *)
(***************************************************************************)

(* PLCLoggerGUI.add_selected_device, lines 1338-1343.  D: the number of   *)
(* devices the operator has to add.                                        *)
AddDevice(D) ==
    /\ pc[0] = "idle"
    /\ Len(ip_addresses) < D
    /\ ip_addresses' = Append(ip_addresses, IPs[Len(ip_addresses) + 1])
    /\ UNCHANGED <<volume_vars, pool_vars, sweep_vars, logger_vars, tags_to_log, hist_vars, writer_vars, files, connections,
                   now, stamp, thread_vars>>

(* import_tags_from_file, lines 699-706: append the tags not yet present.  *)
(* T: the number of tags the operator has for a device.                    *)
AddTag(T) ==
    /\ pc[0] = "idle"
    /\ \E i \in 1..Len(ip_addresses) :
         LET ip == ip_addresses[i] IN
         /\ Len(tags_to_log[ip]) < T
         /\ tags_to_log' = [tags_to_log EXCEPT ![ip] = Append(@, Tags[Len(@) + 1])]
    /\ UNCHANGED <<volume_vars, pool_vars, sweep_vars, logger_vars, ip_addresses, hist_vars, writer_vars, files, connections,
                   now, stamp, thread_vars>>

(* Time passes. *)
Tick ==
    /\ \E d \in TickSteps :
         /\ now + d <= MaxTime
         /\ now' = now + d
    /\ UNCHANGED <<volume_vars, pool_vars, sweep_vars, logger_vars, config_vars, hist_vars, writer_vars, files, connections,
                   stamp, thread_vars>>

(***************************************************************************)
(* PLCDataLogger.cleanup_old_data, lines 220-276, run in a daemon thread   *)
(* of its own that _create_new_logfile starts (line 356) right after the   *)
(* new file has been created (lines 341-353).  A log file is named after   *)
(* its creation time; the directory is modelled per name: whether the raw  *)
(* .csv exists, the state of its .csv.gz ("none", "empty" after it has     *)
(* been opened for writing, "partial", "full") and the .gz's mtime.        *)
(***************************************************************************)

(* Lines 341-356 and 223-240: the new log file of today exists, the thread *)
(* is started, computes cutoff_date and lists the raw files.               *)
SweepStart(s) ==
    /\ sweep[s].pc \in {"idle", "done"}
    /\ log_dir' = [log_dir EXCEPT ![today].raw = TRUE]
    /\ active' = today
    /\ sweep' = [sweep EXCEPT ![s] =
                    [pc |-> "next", cutoff_date |-> today - retention_days, file |-> 0,
                     todo |-> {f \in Days : log_dir'[f].raw}, err |-> FALSE,
                     clobbered |-> FALSE]]
    /\ UNCHANGED <<volume_vars, pool_vars, logger_vars, config_vars, hist_vars, writer_vars, files, connections,
                   now, stamp, thread_vars, today>>

(* Line 259: file_date < cutoff_date *)
IsOld(file_date, cutoff_date) == file_date < cutoff_date

(* Lines 240-259: the next file of the glob; its date is parsed from its   *)
(* name and compared with the cutoff.                                      *)
SweepNext(s) ==
    /\ sweep[s].pc = "next"
    /\ IF sweep[s].todo = {}
       THEN sweep' = [sweep EXCEPT ![s].pc = "done"]
       ELSE LET f == CHOOSE g \in sweep[s].todo : \A h \in sweep[s].todo : g <= h
            IN sweep' = [sweep EXCEPT ![s].todo = @ \ {f},
                                      ![s].file = IF IsOld(f, sweep[s].cutoff_date) THEN f ELSE 0,
                                      ![s].pc = IF IsOld(f, sweep[s].cutoff_date)
                                                THEN "exists" ELSE "next"]
    /\ UNCHANGED <<volume_vars, pool_vars, logger_vars, config_vars, hist_vars, writer_vars, files, connections,
                   now, stamp, thread_vars, active, log_dir, today>>

(* Line 262: if not compressed_file.exists() *)
SweepExists(s) ==
    /\ sweep[s].pc = "exists"
    /\ sweep' = [sweep EXCEPT ![s].pc = IF log_dir[sweep[s].file].gz = "none"
                                        THEN "open_in" ELSE "stat"]
    /\ UNCHANGED <<volume_vars, pool_vars, logger_vars, config_vars, hist_vars, writer_vars, files, connections,
                   now, stamp, thread_vars, active, log_dir, today>>

(* An error on one file ends the whole sweep. *)
SweepAbort(s) == [sweep EXCEPT ![s].pc = "done", ![s].err = TRUE, ![s].file = 0,
                               ![s].clobbered = FALSE]

(* The except clause of lines 272-273: the error is logged and the sweep   *)
(* goes on with the next file.                                             *)
SweepError(s) == [sweep EXCEPT ![s].pc = "next", ![s].err = TRUE, ![s].file = 0,
                               ![s].clobbered = FALSE]

(* Line 263: open(file, 'rb') raises when the raw file is gone. *)
SweepOpenIn(s) ==
    /\ sweep[s].pc = "open_in"
    /\ sweep' = IF log_dir[sweep[s].file].raw
                THEN [sweep EXCEPT ![s].pc = "open_out"]
                ELSE SweepError(s)
    /\ UNCHANGED <<volume_vars, pool_vars, logger_vars, config_vars, hist_vars, writer_vars, files, connections,
                   now, stamp, thread_vars, active, log_dir, today>>

(* Line 264: gzip.open(compressed_file, 'wb') creates the .gz or truncates *)
(* it to nothing, also when another thread is writing it or has written    *)
(* it.  W: whether the open can succeed, can fail.                         *)
SweepOpenOut(s, W) ==
    /\ sweep[s].pc = "open_out"
    /\ \E opened \in W :
         IF opened
         THEN /\ log_dir' = [log_dir EXCEPT ![sweep[s].file].gz = "empty",
                                            ![sweep[s].file].mtime = today]
              /\ sweep' = [u \in Sweepers |->
                             IF u = s THEN [sweep[s] EXCEPT !.pc = "copy"]
                             ELSE IF sweep[u].pc = "copy" /\ sweep[u].file = sweep[s].file
                             THEN [sweep[u] EXCEPT !.clobbered = TRUE]
                             ELSE sweep[u]]
         ELSE /\ sweep' = SweepError(s)
              /\ UNCHANGED log_dir
    /\ UNCHANGED <<volume_vars, pool_vars, logger_vars, config_vars, hist_vars, writer_vars, files, connections,
                   now, stamp, thread_vars, active, today>>

(* What the .gz holds when a copy into it ends.  A copy that completes     *)
(* leaves a full .gz, unless the file was truncated under it by another    *)
(* thread, whose own writes then decide what the beginning of the file     *)
(* holds.  A copy that fails leaves what had been written.                 *)
GzAfterCopy(gz, copied, clobbered) ==
    IF copied
    THEN IF clobbered THEN {"partial", "full"} ELSE {"full"}
    ELSE IF gz = "empty" THEN {"empty", "partial"} ELSE {gz}

(* Line 265: shutil.copyfileobj and the close of both files.  W:           *)
(* whether the copy can complete, can fail (disk full, drive removed).     *)
SweepCopy(s, W) ==
    /\ sweep[s].pc = "copy"
    /\ \E copied \in W :
         /\ \E g \in GzAfterCopy(log_dir[sweep[s].file].gz, copied, sweep[s].clobbered) :
                log_dir' = [log_dir EXCEPT ![sweep[s].file].gz = g,
                                           ![sweep[s].file].mtime = today]
         /\ sweep' = IF copied
                     THEN [sweep EXCEPT ![s].pc = "unlink", ![s].clobbered = FALSE]
                     ELSE SweepError(s)
    /\ UNCHANGED <<volume_vars, pool_vars, logger_vars, config_vars, hist_vars, writer_vars, files, connections,
                   now, stamp, thread_vars, active, today>>

(* Line 266: file.unlink() deletes the raw file; it raises when the file   *)
(* is already gone.                                                        *)
SweepUnlink(s) ==
    /\ sweep[s].pc = "unlink"
    /\ IF log_dir[sweep[s].file].raw
       THEN /\ log_dir' = [log_dir EXCEPT ![sweep[s].file].raw = FALSE]
            /\ sweep' = [sweep EXCEPT ![s].pc = "stat"]
       ELSE /\ sweep' = SweepError(s)
            /\ UNCHANGED log_dir
    /\ UNCHANGED <<volume_vars, pool_vars, logger_vars, config_vars, hist_vars, writer_vars, files, connections,
                   now, stamp, thread_vars, active, today>>

(* Lines 269-270: the .gz is deleted when its mtime is before the cutoff;  *)
(* stat raises when the .gz is gone.                                       *)
SweepStat(s) ==
    /\ sweep[s].pc = "stat"
    /\ LET f == sweep[s].file IN
       IF log_dir[f].gz = "none"
       THEN /\ sweep' = SweepError(s)
            /\ UNCHANGED log_dir
       ELSE /\ sweep' = [sweep EXCEPT ![s].pc = "next", ![s].file = 0]
            /\ log_dir' = IF IsOld(log_dir[f].mtime, sweep[s].cutoff_date)
                          THEN [log_dir EXCEPT ![f].gz = "none", ![f].mtime = 0]
                          ELSE log_dir
    /\ UNCHANGED <<volume_vars, pool_vars, logger_vars, config_vars, hist_vars, writer_vars, files, connections,
                   now, stamp, thread_vars, active, today>>

(* Removable volumes are plugged in or removed, and their free space       *)
(* changes.                                                                *)
VolumesChange ==
    /\ usb_drives' \in VolumeLists(MaxVolumes) \ {usb_drives}
    /\ UNCHANGED <<base_dir, pool_vars, sweep_vars, logger_vars, config_vars, hist_vars, writer_vars, files,
                   connections, now, stamp, thread_vars>>

(* A day passes. *)
NextDay ==
    /\ today < MaxDay
    /\ today' = today + 1
    /\ UNCHANGED <<volume_vars, pool_vars, logger_vars, config_vars, hist_vars, writer_vars, files, connections,
                   now, stamp, thread_vars, active, log_dir, sweep>>


(* save_device_info, lines 181-191, called at the end of a scan of the     *)
(* address range (line 628): when writing device_info.json fails, the      *)
(* except clause runs cleanup_old_data in the calling thread; no log file  *)
(* is created.  W: whether the write can succeed, can fail.                *)
SaveDeviceInfo(s, W) ==
    /\ sweep[s].pc \in {"idle", "done"}
    /\ \E saved \in W :
         sweep' = IF saved
                  THEN sweep
                  ELSE [sweep EXCEPT ![s] =
                          [pc |-> "next", cutoff_date |-> today - retention_days, file |-> 0,
                           todo |-> {f \in Days : log_dir[f].raw}, err |-> FALSE,
                           clobbered |-> FALSE]]
    /\ UNCHANGED <<volume_vars, pool_vars, logger_vars, config_vars, hist_vars, writer_vars, files, connections,
                   now, stamp, thread_vars, active, log_dir, today>>

(***************************************************************************)
(* PLCConnectionPool, lines 94-122.  get_connection is called by the loop  *)
(* threads (line 416), close_all by the thread that runs stop_logging      *)
(* (line 878); each is one critical section of the pool's lock.  At most   *)
(* MaxHandles PLC() objects are created in a run.                          *)
(***************************************************************************)

(* Line 102: a thread calls get_connection(ip_address). *)
GetConnection(t) ==
    /\ pcall[t].pc = "idle"
    /\ \E ip \in IPSet :
         pcall' = [pcall EXCEPT ![t] = [NoCall EXCEPT !.pc = "gc_lock", !.ip = ip]]
    /\ UNCHANGED <<volume_vars, sweep_vars, logger_vars, config_vars, hist_vars, writer_vars, files,
                   connections, now, stamp, thread_vars, pool_lock, pooled, handle_ip,
                   closed, stale>>

(* Line 113: a thread calls close_all(). *)
CloseAllCall(t) ==
    /\ pcall[t].pc = "idle"
    /\ pcall' = [pcall EXCEPT ![t] = [NoCall EXCEPT !.pc = "ca_lock"]]
    /\ UNCHANGED <<volume_vars, sweep_vars, logger_vars, config_vars, hist_vars, writer_vars, files,
                   connections, now, stamp, thread_vars, pool_lock, pooled, handle_ip,
                   closed, stale>>

(* Lines 104 and 115: "with self._lock" blocks until the lock is free.     *)
(* close_all then starts to iterate over connections.items() (line 116).   *)
PoolAcquire(t) ==
    /\ pcall[t].pc \in {"gc_lock", "ca_lock"}
    /\ CanAcquire(pool_lock, t)
    /\ pool_lock' = t + 1
    /\ pcall' = IF pcall[t].pc = "gc_lock"
                THEN [pcall EXCEPT ![t].pc = "gc_test"]
                ELSE [pcall EXCEPT ![t].pc = "ca_iter",
                                   ![t].todo = {ip \in IPSet : pooled[ip] # 0}]
    /\ UNCHANGED <<volume_vars, sweep_vars, logger_vars, config_vars, hist_vars, writer_vars, files,
                   connections, now, stamp, thread_vars, pooled, handle_ip, closed, stale>>

(* Line 105: if ip_address not in self.connections *)
PoolTest(t) ==
    /\ pcall[t].pc = "gc_test"
    /\ pcall' = [pcall EXCEPT ![t].pc = IF pooled[pcall[t].ip] = 0 THEN "gc_new" ELSE "gc_ret"]
    /\ UNCHANGED <<volume_vars, sweep_vars, logger_vars, config_vars, hist_vars, writer_vars, files,
                   connections, now, stamp, thread_vars, pool_lock, pooled, handle_ip,
                   closed, stale>>

(* Lines 106-109: conn = PLC(); conn.IPAddress = ip_address;               *)
(* self.connections[ip_address] = conn                                     *)
PoolCreate(t) ==
    /\ pcall[t].pc = "gc_new"
    /\ Len(handle_ip) < MaxHandles
    /\ handle_ip' = Append(handle_ip, pcall[t].ip)
    /\ pooled' = [pooled EXCEPT ![pcall[t].ip] = Len(handle_ip) + 1]
    /\ connections' = connections \cup {pcall[t].ip}
    /\ pcall' = [pcall EXCEPT ![t].pc = "gc_ret"]
    /\ UNCHANGED <<volume_vars, sweep_vars, logger_vars, config_vars, hist_vars, writer_vars, files, now,
                   stamp, thread_vars, pool_lock, closed, stale>>

(* Line 111: return self.connections[ip_address]; the lock is released. *)
PoolReturn(t) ==
    /\ pcall[t].pc = "gc_ret"
    /\ pcall' = [pcall EXCEPT ![t].pc = "idle", ![t].conn = pooled[pcall[t].ip]]
    /\ pool_lock' = 0
    /\ UNCHANGED <<volume_vars, sweep_vars, logger_vars, config_vars, hist_vars, writer_vars, files,
                   connections, now, stamp, thread_vars, pooled, handle_ip, closed, stale>>

(* An exception of Close is not caught: it ends the iteration and leaves   *)
(* the call.                                                               *)
CloseRaises(c, ip, raised) ==
    IF raised
    THEN [c EXCEPT !.todo = {}, !.raised = TRUE]
    ELSE [c EXCEPT !.todo = @ \ {ip}]

(* Lines 117-121: the try block around conn.Close(): an exception is       *)
(* logged and the iteration goes on with the next entry.                   *)
CloseCaught(c, ip, raised) == [c EXCEPT !.todo = @ \ {ip}, !.logged = @ \/ raised]

(* Lines 116-118: conn.Close() on the next entry.  X: TRUE in X when Close *)
(* can raise.                                                              *)
PoolClose(t, X) ==
    /\ pcall[t].pc = "ca_iter"
    /\ \E ip \in pcall[t].todo, raised \in X :
         /\ closed' = closed \cup {pooled[ip]}
         /\ pcall' = [pcall EXCEPT ![t] = CloseCaught(pcall[t], ip, raised)]
    /\ UNCHANGED <<volume_vars, sweep_vars, logger_vars, config_vars, hist_vars, writer_vars, files,
                   connections, now, stamp, thread_vars, pool_lock, pooled, handle_ip, stale>>

(* Line 122: self.connections.clear(), then the lock is released and       *)
(* close_all returns.                                                      *)
PoolClear(t) ==
    /\ pcall[t].pc = "ca_iter"
    /\ pcall[t].todo = {}
    /\ stale' = stale \cup {pooled[ip] : ip \in {a \in IPSet : pooled[a] # 0}}
    /\ pooled' = [ip \in IPSet |-> 0]
    /\ connections' = {}
    /\ pcall' = [pcall EXCEPT ![t].pc = "idle"]
    /\ pool_lock' = 0
    /\ UNCHANGED <<volume_vars, sweep_vars, logger_vars, config_vars, hist_vars, writer_vars, files, now,
                   stamp, thread_vars, handle_ip, closed>>

(***************************************************************************)
(* The scheduler's life cycle: start, stop and restart from the GUI with   *)
(* up to two loop threads alive, one configured device with one tag,       *)
(* reads that succeed and a file system that works.                        *)
(***************************************************************************)
Init == Constructed(<<IPs[1]>>, OneTag, Loops)

Next ==
    \/ StartLogging
    \/ StartLoggingRunning
    \/ SpawnLoop
    \/ StopLogging
    \/ StopLoggingIdle
    \/ EarlyReturn
    \/ MonitorEnter
    \/ MonitorLeave
    \/ \E t \in Threads : CreateNewLogfile(t, {TRUE})
    \/ \E t \in Threads : SetFile(t, {TRUE})
    \/ \E t \in Threads : Flush(t, {TRUE})
    \/ \E t \in Threads : CloseAll(t)
    \/ \E t \in Threads : StopReturn(t)
    \/ \E t \in Loops : LoopTop(t, {TRUE}, {FALSE})
    \/ \E t \in Loops : ReadBegin(t, MaxSamples)
    \/ \E t \in Loops : RetryTest(t)
    \/ \E t \in Loops : GetConn(t)
    \/ \E t \in Loops : ReadBatch(t, {FALSE}, {TRUE})
    \/ \E t \in Loops : HistEvict(t)
    \/ \E t \in Loops : HistPut(t)
    \/ \E t \in Loops : WriteRecord(t)
    \/ \E t \in Loops : Callback(t)
    \/ \E t \in Loops : WaitForNextSample(t)

Spec == Init /\ [][Next]_vars

(***************************************************************************)
(* One loop thread with a changing environment: the operator adds the      *)
(* device and its tag while logging, time passes, rotation comes due,      *)
(* choosing the directory of a new file or writing a file can fail, a read *)
(* can return a failed status.                                             *)
(***************************************************************************)
InitWriter == Constructed(<<>>, NoTags, {1})

NextWriter ==
    \/ StartLogging
    \/ SpawnLoop
    \/ StopLogging
    \/ AddDevice(1)
    \/ AddTag(1)
    \/ Tick
    \/ \E t \in Threads : CreateNewLogfile(t, BOOLEAN)
    \/ \E t \in Threads : SetFile(t, {TRUE})
    \/ \E t \in Threads : Flush(t, BOOLEAN)
    \/ \E t \in Threads : CloseAll(t)
    \/ \E t \in Threads : StopReturn(t)
    \/ \E t \in Loops : LoopTop(t, {TRUE}, BOOLEAN)
    \/ \E t \in Loops : ReadBegin(t, MaxSamples)
    \/ \E t \in Loops : RetryTest(t)
    \/ \E t \in Loops : GetConn(t)
    \/ \E t \in Loops : ReadBatch(t, {FALSE}, BOOLEAN)
    \/ \E t \in Loops : HistEvict(t)
    \/ \E t \in Loops : HistPut(t)
    \/ \E t \in Loops : WriteRecord(t)
    \/ \E t \in Loops : Callback(t)
    \/ \E t \in Loops : WaitForNextSample(t)

SpecWriter == InitWriter /\ [][NextWriter]_vars

(***************************************************************************)
(* One loop thread whose cycles can raise at any step, and whose resource  *)
(* check can fail.                                                         *)
(***************************************************************************)
InitBreaker == Constructed(<<IPs[1]>>, OneTag, {1})

NextBreaker ==
    \/ StartLogging
    \/ SpawnLoop
    \/ StopLogging
    \/ \E t \in Threads : CreateNewLogfile(t, {TRUE})
    \/ \E t \in Threads : SetFile(t, {TRUE})
    \/ \E t \in Threads : Flush(t, {TRUE})
    \/ \E t \in Threads : CloseAll(t)
    \/ \E t \in Threads : StopReturn(t)
    \/ \E t \in Loops : LoopTop(t, BOOLEAN, {FALSE})
    \/ \E t \in Loops : ResourceSleep(t)
    \/ \E t \in Loops : ReadBegin(t, MaxFailSamples)
    \/ \E t \in Loops : RetryTest(t)
    \/ \E t \in Loops : GetConn(t)
    \/ \E t \in Loops : ReadBatch(t, {FALSE}, {TRUE})
    \/ \E t \in Loops : HistEvict(t)
    \/ \E t \in Loops : HistPut(t)
    \/ \E t \in Loops : WriteRecord(t)
    \/ \E t \in Loops : Callback(t)
    \/ \E t \in Loops : WaitForNextSample(t)
    \/ \E t \in Loops : Raise(t)
    \/ \E t \in Loops : Backoff(t)

SpecBreaker == InitBreaker /\ [][NextBreaker]_vars

(***************************************************************************)
(* Backoff: one loop thread whose cycles can raise at any step, with       *)
(* resources that are always sufficient, so that every cycle either        *)
(* completes or fails.                                                     *)
(***************************************************************************)
NextBackoff ==
    \/ StartLogging
    \/ SpawnLoop
    \/ StopLogging
    \/ \E t \in Threads : CreateNewLogfile(t, {TRUE})
    \/ \E t \in Threads : SetFile(t, {TRUE})
    \/ \E t \in Threads : Flush(t, {TRUE})
    \/ \E t \in Threads : CloseAll(t)
    \/ \E t \in Threads : StopReturn(t)
    \/ \E t \in Loops : LoopTop(t, {TRUE}, {FALSE})
    \/ \E t \in Loops : ReadBegin(t, MaxFailSamples)
    \/ \E t \in Loops : RetryTest(t)
    \/ \E t \in Loops : GetConn(t)
    \/ \E t \in Loops : ReadBatch(t, {FALSE}, {TRUE})
    \/ \E t \in Loops : HistEvict(t)
    \/ \E t \in Loops : HistPut(t)
    \/ \E t \in Loops : WriteRecord(t)
    \/ \E t \in Loops : Callback(t)
    \/ \E t \in Loops : WaitForNextSample(t)
    \/ \E t \in Loops : Raise(t)
    \/ \E t \in Loops : Backoff(t)

SpecBackoff == InitBreaker /\ [][NextBackoff]_vars

(***************************************************************************)
(* Acquisition: one loop thread, two devices (the first with more tags     *)
(* than one batch holds), reads that raise or return failed statuses, and  *)
(* a stop_logging that can arrive at any point of the read.                *)
(***************************************************************************)
TwoDevices == [ip \in IPSet |-> IF ip = IPs[1] THEN Tags ELSE <<Tags[1]>>]

InitRead == Constructed(IPs, TwoDevices, {1})

NextRead ==
    \/ StartLogging
    \/ SpawnLoop
    \/ StopLogging
    \/ \E t \in Threads : CreateNewLogfile(t, {TRUE})
    \/ \E t \in Threads : SetFile(t, {TRUE})
    \/ \E t \in Threads : Flush(t, {TRUE})
    \/ \E t \in Threads : CloseAll(t)
    \/ \E t \in Threads : StopReturn(t)
    \/ \E t \in Loops : LoopTop(t, {TRUE}, {FALSE})
    \/ \E t \in Loops : ReadBegin(t, MaxReadSamples)
    \/ \E t \in Loops : RetryTest(t)
    \/ \E t \in Loops : GetConn(t)
    \/ \E t \in Loops : ReadBatch(t, {TRUE}, BOOLEAN)
    \/ \E t \in Loops : RetrySleep(t)
    \/ \E t \in Loops : HistEvict(t)
    \/ \E t \in Loops : HistPut(t)
    \/ \E t \in Loops : WriteRecord(t)
    \/ \E t \in Loops : Callback(t)
    \/ \E t \in Loops : WaitForNextSample(t)

SpecRead == InitRead /\ [][NextRead]_vars

(***************************************************************************)
(* Retention: log files are created over the days, every creation starts   *)
(* a cleanup thread, up to two of them run together, and writing a .gz can *)
(* fail.                                                                   *)
(***************************************************************************)
InitSweep == Constructed(<<>>, NoTags, {})

NextSweep ==
    \/ NextDay
    \/ \E s \in Sweepers : SweepStart(s)
    \/ \E s \in Sweepers : SweepNext(s)
    \/ \E s \in Sweepers : SweepExists(s)
    \/ \E s \in Sweepers : SweepOpenIn(s)
    \/ \E s \in Sweepers : SweepOpenOut(s, BOOLEAN)
    \/ \E s \in Sweepers : SweepCopy(s, BOOLEAN)
    \/ \E s \in Sweepers : SweepUnlink(s)
    \/ \E s \in Sweepers : SweepStat(s)

SpecSweep == InitSweep /\ [][NextSweep]_vars

(***************************************************************************)
(* Retention with a long save_interval: one log file is created and stays  *)
(* the active one while the days pass, and saving the device information   *)
(* can fail.                                                               *)
(***************************************************************************)
NextRetention ==
    \/ NextDay
    \/ active = NoDay /\ SweepStart(1)
    \/ \E s \in Sweepers : SaveDeviceInfo(s, BOOLEAN)
    \/ \E s \in Sweepers : SweepNext(s)
    \/ \E s \in Sweepers : SweepExists(s)
    \/ \E s \in Sweepers : SweepOpenIn(s)
    \/ \E s \in Sweepers : SweepOpenOut(s, BOOLEAN)
    \/ \E s \in Sweepers : SweepCopy(s, BOOLEAN)
    \/ \E s \in Sweepers : SweepUnlink(s)
    \/ \E s \in Sweepers : SweepStat(s)

SpecRetention == InitSweep /\ [][NextRetention]_vars

(***************************************************************************)
(* The connection pool under contention: three threads call get_connection *)
(* for either device and close_all in any interleaving, and Close can      *)
(* raise.                                                                  *)
(***************************************************************************)
InitPool == Constructed(IPs, TwoDevices, {})

NextPool ==
    \/ \E t \in Threads : GetConnection(t)
    \/ \E t \in Threads : CloseAllCall(t)
    \/ \E t \in Threads : PoolAcquire(t)
    \/ \E t \in Threads : PoolTest(t)
    \/ \E t \in Threads : PoolCreate(t)
    \/ \E t \in Threads : PoolReturn(t)
    \/ \E t \in Threads : PoolClose(t, BOOLEAN)
    \/ \E t \in Threads : PoolClear(t)

SpecPool == InitPool /\ [][NextPool]_vars

(***************************************************************************)
(* The writer and its files: one loop thread without devices (every row is *)
(* a timestamp), time that passes, rotation that can come due in the       *)
(* second in which the file was created, and creating or writing a file    *)
(* that can fail.                                                          *)
(***************************************************************************)
InitFile == Constructed(<<>>, NoTags, {1})

NextFile ==
    \/ StartLogging
    \/ SpawnLoop
    \/ StopLogging
    \/ Tick
    \/ \E t \in Threads : CreateNewLogfile(t, BOOLEAN)
    \/ \E t \in Threads : SetFile(t, BOOLEAN)
    \/ \E t \in Threads : Flush(t, BOOLEAN)
    \/ \E t \in Threads : CloseAll(t)
    \/ \E t \in Threads : StopReturn(t)
    \/ \E t \in Loops : LoopTop(t, {TRUE}, BOOLEAN)
    \/ \E t \in Loops : ReadBegin(t, MaxSamples)
    \/ \E t \in Loops : RetryTest(t)
    \/ \E t \in Loops : HistEvict(t)
    \/ \E t \in Loops : HistPut(t)
    \/ \E t \in Loops : WriteRecord(t)
    \/ \E t \in Loops : Callback(t)
    \/ \E t \in Loops : WaitForNextSample(t)

SpecFile == InitFile /\ [][NextFile]_vars

(***************************************************************************)
(* Rotation: the writer and its files as above, with log files that stay   *)
(* below 100 MB and whose size can always be read, so that a rotation is   *)
(* decided by the file's presence and age alone.                           *)
(***************************************************************************)
NextRotation ==
    \/ StartLogging
    \/ SpawnLoop
    \/ StopLogging
    \/ Tick
    \/ \E t \in Threads : CreateNewLogfile(t, BOOLEAN)
    \/ \E t \in Threads : SetFile(t, BOOLEAN)
    \/ \E t \in Threads : Flush(t, BOOLEAN)
    \/ \E t \in Threads : CloseAll(t)
    \/ \E t \in Threads : StopReturn(t)
    \/ \E t \in Loops : LoopTop(t, {TRUE}, {FALSE})
    \/ \E t \in Loops : ReadBegin(t, MaxSamples)
    \/ \E t \in Loops : RetryTest(t)
    \/ \E t \in Loops : HistEvict(t)
    \/ \E t \in Loops : HistPut(t)
    \/ \E t \in Loops : WriteRecord(t)
    \/ \E t \in Loops : Callback(t)
    \/ \E t \in Loops : WaitForNextSample(t)

SpecRotation == InitFile /\ [][NextRotation]_vars

(***************************************************************************)
(* Failing writes: the writer and its files as above, with appends that    *)
(* succeed, fail before any row is written, or fail part of the way.       *)
(***************************************************************************)
NextPartial ==
    \/ StartLogging
    \/ SpawnLoop
    \/ StopLogging
    \/ Tick
    \/ \E t \in Threads : CreateNewLogfile(t, BOOLEAN)
    \/ \E t \in Threads : SetFile(t, BOOLEAN)
    \/ \E t \in Threads : Flush(t, BOOLEAN)
    \/ \E t \in Threads : FlushFailsPartway(t)
    \/ \E t \in Threads : CloseAll(t)
    \/ \E t \in Threads : StopReturn(t)
    \/ \E t \in Loops : LoopTop(t, {TRUE}, BOOLEAN)
    \/ \E t \in Loops : ReadBegin(t, MaxSamples)
    \/ \E t \in Loops : RetryTest(t)
    \/ \E t \in Loops : HistEvict(t)
    \/ \E t \in Loops : HistPut(t)
    \/ \E t \in Loops : WriteRecord(t)
    \/ \E t \in Loops : Callback(t)
    \/ \E t \in Loops : WaitForNextSample(t)

SpecPartial == InitFile /\ [][NextPartial]_vars

(***************************************************************************)
(* Storage: logging is started and stopped while removable volumes come    *)
(* and go, with too little space, enough space or a space check that       *)
(* fails; the loop has no devices.                                         *)
(***************************************************************************)
NextStorage ==
    \/ VolumesChange
    \/ StartLogging
    \/ SpawnLoop
    \/ StopLogging
    \/ \E t \in Threads : CreateNewLogfile(t, BOOLEAN)
    \/ \E t \in Threads : SetFile(t, {TRUE})
    \/ \E t \in Threads : Flush(t, {TRUE})
    \/ \E t \in Threads : CloseAll(t)
    \/ \E t \in Threads : StopReturn(t)
    \/ \E t \in Loops : LoopTop(t, {TRUE}, {FALSE})
    \/ \E t \in Loops : ReadBegin(t, MaxReadSamples)
    \/ \E t \in Loops : RetryTest(t)
    \/ \E t \in Loops : HistEvict(t)
    \/ \E t \in Loops : HistPut(t)
    \/ \E t \in Loops : WriteRecord(t)
    \/ \E t \in Loops : Callback(t)
    \/ \E t \in Loops : WaitForNextSample(t)

SpecStorage == InitFile /\ [][NextStorage]_vars

(***************************************************************************)
(* The life cycle under fair scheduling: a thread that can again and again *)
(* take a step of the code it is running eventually takes one (a thread    *)
(* that waits for a lock gets it if the lock is released again and again). *)
(* The operator is not obliged to call start_logging or stop_logging or to *)
(* open the monitor.                                                       *)
(***************************************************************************)
Proceed(t) ==
    \/ CreateNewLogfile(t, {TRUE})
    \/ SetFile(t, {TRUE})
    \/ Flush(t, {TRUE})
    \/ CloseAll(t)
    \/ StopReturn(t)
    \/ t = 0 /\ (SpawnLoop \/ EarlyReturn \/ MonitorLeave)
    \/ t \in Loops /\ \/ LoopTop(t, {TRUE}, {FALSE})
                      \/ ReadBegin(t, MaxSamples)
                      \/ RetryTest(t)
                      \/ GetConn(t)
                      \/ ReadBatch(t, {FALSE}, {TRUE})
                      \/ HistEvict(t)
                      \/ HistPut(t)
                      \/ WriteRecord(t)
                      \/ Callback(t)
                      \/ WaitForNextSample(t)

SpecFair == Init /\ [][Next]_vars /\ \A t \in Threads : SF_vars(Proceed(t))

(***************************************************************************)
(* Claims.                                                                 *)
(***************************************************************************)

(* A loop thread that has been started and has not ended. *)
Alive(t) == pc[t] \notin {"none", "off"}

(* A thread is inside stop_logging. *)
InStop(t) == pc[t] \in {"stop_flush", "stop_close", "stop_sleep"}

(* stop_logging has returned and start_logging has not been called since. *)
Stopped == ~running /\ pc[0] \in {"idle", "mon"} /\ \A t \in Threads : ~InStop(t)

(* The steps of a cycle that read a device, append to History, hand a row   *)
(* to the writer or call the observer.                                      *)
WorkPcs == {"conn", "batch", "hist", "hist_put", "write", "callback"}

(* C4: when stop_logging returns, the writer's row buffer is empty. *)
C4_StopReturnsFlushed ==
    [][\A t \in Threads : (pc[t] = "stop_sleep" /\ pc'[t] # "stop_sleep") => buffer' = <<>>]_vars

(* C5: after stop_logging has returned (and before any new start), no loop  *)
(* thread reads a device, appends to History, calls add_record or calls the *)
(* observer.                                                                *)
C5_NoWorkAfterStop ==
    [][Stopped => \A t \in Loops : ~(pc[t] \in WorkPcs /\ <<pc[t], loc[t]>>' # <<pc[t], loc[t]>>)]_vars

(* C6: at most one cycle loop thread is alive at any time. *)
C6_OneLoop == Cardinality({t \in Loops : Alive(t)}) <= 1

(* C10: History never holds more than HISTORY_LIMIT Samples. *)
C10_HistoryBounded == Len(data_queue) <= HISTORY_LIMIT

(* C10 witness: more Samples than HISTORY_LIMIT have been appended by two   *)
(* live appenders, none is in flight, and History is exactly full.          *)
C10_Witness ==
    /\ Len(data_queue) = HISTORY_LIMIT
    /\ stamp > HISTORY_LIMIT
    /\ \A t \in Loops : Alive(t) /\ pc[t] \notin {"read", "while", "conn", "batch", "hist", "hist_put"}

(* The thread is inside add_record, calling flush while it holds the lock   *)
(* that flush waits for: it waits for itself and never proceeds.            *)
DeadlockedOnWriter(t) == pc[t] = "ar_flush" /\ ~CanAcquire(wlock, t) /\ wlock = t + 1

(* Nothing will run any more unless the operator acts: the GUI thread is    *)
(* idle and every loop thread has ended or waits for itself.                *)
AtRest == pc[0] = "idle" /\ \A t \in Loops : ~Alive(t) \/ DeadlockedOnWriter(t)

(* C1: no execution leaves a Sample in the row buffer for ever without an   *)
(* error reported: once the program is at rest the buffer is empty or a     *)
(* writer error has reached the caller.                                     *)
C1_NoRowStranded == AtRest => (buffer = <<>> \/ write_error)

(* C2: an add_record call that meets the flush condition (BATCH_SIZE rows,  *)
(* or more than 60 seconds since the last flush) performs the flush as part *)
(* of the call: the flush it calls gets the writer's lock.                  *)
C2_AutoFlushRuns == \A t \in Loops : pc[t] = "ar_flush" => CanAcquire(wlock, t)

(* The keys of every configured point of every configured device. *)
ConfiguredKeys ==
    UNION {{Key(ip_addresses[i], TagsOf(ip_addresses[i])[j]) :
                j \in 1..Len(TagsOf(ip_addresses[i]))} : i \in 1..Len(ip_addresses)}

(* C3: the Sample _read_plc_data returns has a key for every configured     *)
(* point of every configured device.                                        *)
C3_SampleComplete ==
    \A t \in Loops : pc[t] = "hist" => ConfiguredKeys \subseteq DOMAIN loc[t].dp

(* C7: when max_consecutive_errors cycles in a row have each raised, at     *)
(* whichever step, the loop has tripped the breaker: it is in stop_logging  *)
(* and starts no further cycle.                                             *)
C7_BreakerTrips ==
    \A t \in Loops : loc[t].fails >= max_consecutive_errors => InStop(t)

(* C8: rows buffered while file F was active are appended to F: whenever a  *)
(* flush writes the buffer out, every row in it was buffered for the file   *)
(* it is written to.                                                        *)
C8_RowsReachTheirFile ==
    [][(buffer # <<>> /\ buffer' = <<>>) =>
          \A i \in 1..Len(buffered_for) : buffered_for[i] = current_file]_vars

(* C9: every data row of an output file has as many columns as the header   *)
(* written when the file was created.                                       *)
C9_RowsMatchHeader ==
    \A f \in DOMAIN files :
        (files[f] # <<>> /\ files[f][1][1] = "timestamp") =>
            \A i \in 2..Len(files[f]) : Len(files[f][i]) = Len(files[f][1])

(* The smaller of two numbers. *)
Min(a, b) == IF a < b THEN a ELSE b

(* A loop thread holds a Sample that it has produced and not yet appended  *)
(* to History.                                                             *)
SampleInFlight(t) ==
    pc[t] \in {"while", "conn", "batch", "retry_sleep", "hist", "hist_put"}

(* C11: after n cycles have appended their Samples (none is in flight),     *)
(* History holds exactly the last min(n, HISTORY_LIMIT) Samples produced,   *)
(* in the order they were produced.                                         *)
C11_HistoryIsLastSamples ==
    (\A t \in Loops : ~SampleInFlight(t)) =>
        /\ Len(data_queue) = Min(stamp, HISTORY_LIMIT)
        /\ \A i \in 1..Len(data_queue) :
               data_queue[i].timestamp = stamp - Len(data_queue) + i

(* The keys of the points of the device at position i of ip_addresses. *)
KeysOf(i) ==
    {Key(ip_addresses[i], TagsOf(ip_addresses[i])[j]) : j \in 1..Len(TagsOf(ip_addresses[i]))}

(* C12: when every read attempt for a device has raised and no cancellation *)
(* has arrived, the Sample _read_plc_data returns was built from exactly    *)
(* max_retries attempts for that device and holds null for every one of its *)
(* points; and the step that marks the device's points as failed leaves the *)
(* values of the other devices as they were.                                *)
C12_ExhaustedDeviceIsNull ==
    [][\A t \in Loops :
         /\ (pc'[t] = "hist" /\ ~stop_event') =>
               \A i \in 1..Len(ip_addresses) :
                   (KeysOf(i) # {} /\ ~loc'[t].ok[i]) =>
                       /\ loc'[t].att[i] = max_retries
                       /\ \A k \in KeysOf(i) : k \in DOMAIN loc'[t].dp /\ loc'[t].dp[k] = NoneV
         /\ (pc[t] = "batch" /\ pc'[t] = "while" /\ ~loc'[t].ok[loc[t].idx]) =>
               \A k \in DOMAIN loc[t].dp \ KeysOf(loc[t].idx) :
                   k \in DOMAIN loc'[t].dp /\ loc'[t].dp[k] = loc[t].dp[k]]_vars

(* C12 witness: a Sample is returned without cancellation in which the      *)
(* first device (three points, two batches) failed all its max_retries      *)
(* attempts and is null throughout, while the second device was read.       *)
C12_Witness ==
    \E t \in Loops :
        /\ pc[t] = "hist" /\ ~stop_event
        /\ ~loc[t].ok[1] /\ loc[t].att[1] = max_retries
        /\ \A k \in KeysOf(1) : loc[t].dp[k] = NoneV
        /\ loc[t].ok[2] /\ \A k \in KeysOf(2) : loc[t].dp[k] = GoodV

(* C13: while the cancellation signal is set, _read_plc_data starts no read *)
(* attempt: no device gets a further attempt, be it a device that was       *)
(* waiting in its retry delay or a device not yet reached.                  *)
C13_NoAttemptAfterCancel ==
    [][\A t \in Loops :
         stop_event => (pc[t] = "while" => pc'[t] \notin {"conn", "batch"})]_vars

(* C13 witness: with the signal set, the device that had failed an attempt  *)
(* and was due a retry has been passed over with attempts left, and the     *)
(* next device was passed over without any attempt.                         *)
C13_Witness ==
    \E t \in Loops :
        /\ stop_event /\ pc[t] = "hist"
        /\ ~loc[t].ok[1] /\ loc[t].att[1] >= 1 /\ loc[t].att[1] < max_retries
        /\ loc[t].att[2] = 0

(* C14: an exception raised inside the observer callback does not disturb   *)
(* the loop: the step that leaves the callback does not increment the       *)
(* consecutive-error counter, does not enter the error backoff and does not *)
(* end the loop.                                                            *)
C14_CallbackContained ==
    [][\A t \in Loops :
         pc[t] = "callback" =>
             /\ loc'[t].cerr = loc[t].cerr
             /\ pc'[t] \notin {"backoff", "stop_flush", "none"}]_vars

(* C15: a flush that fails to append the buffered rows to the active file   *)
(* is reported: the error reaches the caller, or the caller requests a new  *)
(* log file.                                                                *)
C15_WriteFailureReported ==
    [][\A t \in Threads :
         (/\ pc[t] \in {"stop_flush", "ar_flush"} /\ pc'[t] # pc[t]
          /\ buffer # <<>> /\ current_file # NoFile /\ buffer' = buffer)
             => (write_error' \/ pc'[t] = "cnl")]_vars

(* The cell for a column: empty when the Sample has no key for it or holds  *)
(* null, the string form of the value otherwise.                            *)
ExpectedCell(record, col) ==
    IF col \notin DOMAIN record \/ record[col] = NoneV THEN "" ELSE ToString(record[col])

(* C16: the row add_record appends has, for every column of the header, an  *)
(* empty cell when the point is null or absent from the Sample and the      *)
(* string form of the value otherwise.                                      *)
C16_NullIsEmptyCell ==
    [][\A t \in Loops :
         (pc[t] = "write" /\ pc'[t] # "write" /\ Len(buffer') = Len(buffer) + 1) =>
             buffer'[Len(buffer')] =
                 [i \in 1..Len(BuildHeader) |-> ExpectedCell(loc[t].dp, BuildHeader[i])]]_vars

(* C17: for every N, the flush that follows N add_record calls can write    *)
(* the rows out: when a flush is called with rows in the buffer, the        *)
(* writer's lock is not held by a call that never returns.                  *)
C17_RoundTripCompletes ==
    \A t \in Threads : (pc[t] = "stop_flush" /\ buffer # <<>>) => CanAcquire(wlock, t)

(* C18: while the scheduler is running and no thread is inside              *)
(* _create_new_logfile, the scheduler and the writer name the same file.    *)
C18_OneActiveFile ==
    (running /\ \A t \in Threads : pc[t] \notin {"cnl", "cnl_set"}) =>
        current_filename = current_file

(* C19: the sweep deletes a raw log file only when a compressed copy of it  *)
(* exists and is not empty.                                                 *)
C19_RawDeletedAfterCopy ==
    [][\A f \in Days :
         (log_dir[f].raw /\ ~log_dir'[f].raw) => log_dir[f].gz \notin {"none", "empty"}]_vars

(* C20: after a sweep has completed without an I/O error, no compressed     *)
(* file with a modification time before the sweep's cutoff remains.         *)
C20_OldCompressedGone ==
    \A s \in Sweepers :
        (sweep[s].pc = "done" /\ ~sweep[s].err) =>
            \A f \in Days :
                log_dir[f].gz # "none" => ~IsOld(log_dir[f].mtime, sweep[s].cutoff_date)

(* No cleanup thread is in the middle of a sweep. *)
NoSweepRunning == \A u \in Sweepers : sweep[u].pc \in {"idle", "done"}

(* C21: after a sweep has completed without an I/O error, and with no other *)
(* sweep still running, no raw log file older than the retention window     *)
(* remains in the directory: each has been compressed and removed.  (A log  *)
(* file is written during the save interval that follows its creation, so   *)
(* the day of its last modification is the day in its name.)                *)
C21_OldRawReplaced ==
    \A s \in Sweepers :
        (NoSweepRunning /\ sweep[s].pc = "done" /\ ~sweep[s].err) =>
            \A f \in Days : IsOld(f, sweep[s].cutoff_date) => ~log_dir[f].raw

(* The steps of a sweep that work on one file, lines 262-270. *)
SweepFilePcs == {"exists", "open_in", "open_out", "copy", "unlink", "stat"}

C23_OneHandlePerAddress ==
    /\ \A h \in 1..Len(handle_ip) : h \notin stale => pooled[handle_ip[h]] = h
    /\ \A t \in Threads :
          (pcall[t].pc = "idle" /\ pcall[t].conn # 0) =>
             /\ handle_ip[pcall[t].conn] = pcall[t].ip
             /\ pcall[t].conn \notin stale => pooled[pcall[t].ip] = pcall[t].conn

(* C23 witness: three calls for one address overlap: one has returned the   *)
(* handle, one holds the lock and is about to return, one waits for the     *)
(* lock; one handle has been created.                                       *)
C23_Witness ==
    /\ Len(handle_ip) = 1
    /\ pcall[0].pc = "idle" /\ pcall[0].conn = 1
    /\ pcall[1].pc = "gc_ret" /\ pcall[1].ip = pcall[0].ip
    /\ pcall[2].pc = "gc_lock" /\ pcall[2].ip = pcall[0].ip

(* C24: when close_all returns, Close has been called on every handle that  *)
(* was in the pool, the pool is empty and no exception has left the call.   *)
C24_CloseAllClosesAll ==
    [][\A t \in Threads :
         (pcall[t].pc = "ca_iter" /\ pcall'[t].pc = "idle") =>
            /\ \A ip \in IPSet : pooled[ip] # 0 => pooled[ip] \in closed'
            /\ \A ip \in IPSet : pooled'[ip] = 0
            /\ ~pcall'[t].raised]_vars

(* C24 witness: a close_all in which a Close raised has returned, after     *)
(* Close was called on both handles of the pool; the pool is empty.         *)
C24_Witness ==
    \E t \in Threads :
        /\ pcall[t].pc = "idle" /\ pcall[t].logged
        /\ Cardinality(stale) = 2 /\ stale \subseteq closed
        /\ \A ip \in IPSet : pooled[ip] = 0

(* What start_logging and stop_logging act on: the flags, the output files, *)
(* the writer, the pool, History and the loop threads.                      *)
Untouched ==
    /\ UNCHANGED <<logger_vars, hist_vars, writer_vars, files, connections, loc>>
    /\ \A t \in Loops : pc'[t] = pc[t]

(* C25: a start_logging called while running is set, and a stop_logging     *)
(* called while it is not set, return at once and change nothing: no file,  *)
(* no loop thread, no flush, no connection close, and the cancellation      *)
(* signal keeps its value.                                                  *)
C25_RedundantCallsChangeNothing ==
    [][/\ (pc[0] = "idle" /\ running /\ pc'[0] \in {"start_ret", "cnl"}) =>
              (pc'[0] = "start_ret" /\ Untouched)
       /\ (pc[0] = "idle" /\ ~running /\ pc'[0] \in {"stop_ret", "stop_flush"}) =>
              (pc'[0] = "stop_ret" /\ Untouched)]_vars

(* C25 witness: start_logging has been called and has returned at once      *)
(* while a loop thread is alive, an output file is active and the           *)
(* cancellation signal is clear.                                            *)
C25_Witness ==
    /\ pc[0] = "start_ret"
    /\ running /\ ~stop_event
    /\ current_filename # NoFile
    /\ \E t \in Loops : Alive(t)

(* What a cycle acts on, as seen from loop thread t: the output file and    *)
(* its rotation, the pool, the number of Samples acquired, History, the     *)
(* writer, and the thread's error counter and Sample.                       *)
CycleUntouched(t) ==
    /\ UNCHANGED <<logger_vars, hist_vars, writer_vars, files, connections, stamp>>
    /\ loc'[t].cerr = loc[t].cerr
    /\ loc'[t].dp = loc[t].dp

(* C26: the step in which the resource check fails, and the sleep that      *)
(* follows it, rotate no file, acquire nothing, update neither History nor  *)
(* the writer, leave the consecutive-error counter as it was, and lead back *)
(* to the loop test, where the check is made again.                         *)
C26_FailedCheckSkipsCycle ==
    [][\A t \in Loops :
         /\ (pc[t] # "rsleep" /\ pc'[t] = "rsleep") => CycleUntouched(t)
         /\ (pc[t] = "rsleep" /\ pc'[t] # "rsleep") =>
                (pc'[t] = "top" /\ CycleUntouched(t))]_vars

(* C26 witness: the resource check has failed in a loop whose               *)
(* consecutive-error counter is not zero.                                   *)
C26_Witness == \E t \in Loops : pc[t] = "rsleep" /\ loc[t].cerr > 0

(* C27: when a batch read returns, each point of the batch is recorded by   *)
(* its own status (its value on success, null otherwise), the points of     *)
(* other batches keep what they had, and the read is not attempted again:   *)
(* the loop goes on to the next batch, or to the next device.               *)
C27_PointsRecordedByStatus ==
    [][\A t \in Loops :
         (pc[t] = "batch" /\ loc'[t] # loc[t] /\ loc'[t].retries # loc[t].retries + 1) =>
            LET ip == ip_addresses[loc[t].idx]
                tags == TagsOf(ip)
                pos == BatchPositions(loc[t].bi, tags)
                keys == {Key(ip, tags[j]) : j \in pos}
            IN /\ DOMAIN loc'[t].st = pos
               /\ \A j \in pos :
                     loc'[t].dp[Key(ip, tags[j])] = IF loc'[t].st[j] THEN GoodV ELSE NoneV
               /\ \A k \in DOMAIN loc[t].dp \ keys : loc'[t].dp[k] = loc[t].dp[k]
               /\ loc'[t].att = loc[t].att
               /\ \/ pc'[t] = "batch" /\ loc'[t].bi = loc[t].bi + BATCH_SIZE
                  \/ pc'[t] = "while" /\ loc'[t].idx = loc[t].idx + 1]_vars

(* C27 witness: a batch read of two points has returned one success and one *)
(* failure; the Sample holds the value of the first and null for the other. *)
C27_Witness ==
    \E t \in Loops :
        /\ pc[t] = "batch"
        /\ DOMAIN loc[t].st = {1, 2}
        /\ loc[t].st[1] /\ ~loc[t].st[2]
        /\ loc[t].dp[Key(IPs[1], Tags[1])] = GoodV
        /\ loc[t].dp[Key(IPs[1], Tags[2])] = NoneV

(* C28: a flush that finds the buffer empty writes nothing, creates no file *)
(* and changes nothing in the writer, so that a second flush leaves what    *)
(* the first has left.                                                      *)
C28_EmptyFlushIsNoop ==
    [][\A t \in Threads :
         (pc[t] \in {"stop_flush", "ar_flush"} /\ pc'[t] # pc[t] /\ buffer = <<>>) =>
            UNCHANGED <<files, writer_vars>>]_vars

(* C28 witness: stop_logging has flushed while the buffer was empty, after  *)
(* time has passed since the last flush and with an active file that does   *)
(* not exist: the file has not been created and last_flush has not moved.   *)
C28_Witness ==
    /\ pc[0] = "stop_close"
    /\ buffer = <<>>
    /\ current_file # NoFile /\ ~Exists(current_file)
    /\ last_flush < now

(* C29: a set_file on a path that exists leaves every file as it is.        *)
C29_SetFileKeepsExisting ==
    [][\A t \in Threads :
         (pc[t] = "cnl_set" /\ pc'[t] # "cnl_set" /\ Exists(current_filename)) =>
            files' = files]_vars

(* C29 witness: start_logging has just called set_file on the path of a     *)
(* file that held data rows, no loop thread is alive, and the file still    *)
(* holds its rows under its one header.                                     *)
C29_Witness ==
    /\ pc[0] = "spawn"
    /\ \A t \in Loops : ~Alive(t)
    /\ current_file = current_filename /\ Exists(current_file)
    /\ Len(files[current_file]) >= 2
    /\ files[current_file][1] = header
    /\ \A i \in 2..Len(files[current_file]) : files[current_file][i] # header

(* The thread is at a call of the writer that takes the writer's lock:      *)
(* set_file, add_record, or flush.                                          *)
WaitsForWriter(t) ==
    \/ pc[t] \in {"cnl_set", "stop_flush", "ar_flush"}
    \/ pc[t] = "write" /\ current_filename # NoFile

(* C30: no thread blocks for ever on the writer's lock: whenever a thread is *)
(* at set_file, add_record or flush and the lock is held, its holder is not  *)
(* itself waiting for the lock.                                              *)
C30_WriterLockIsReleased ==
    \A t \in Threads :
        (WaitsForWriter(t) /\ wlock # 0) => ~WaitsForWriter(wlock - 1)

(* C31: under fair scheduling, a loop thread that is alive while the        *)
(* cancellation signal is set eventually exits, unless start_logging clears *)
(* the signal first (or the run has used up its MaxSamples Samples).        *)
C31_LoopExitsAfterStop ==
    \A t \in Loops :
        (stop_event /\ Alive(t)) ~> (~Alive(t) \/ ~stop_event \/ stamp >= MaxSamples)

(* The timestamp of a data row: the number its first cell is the text of. *)
TimeOf(row) == CHOOSE n \in 0..(MaxSamples + MaxFailSamples) : ToString(n) = row[1]

(* The data rows of a sequence of rows (a header row starts with the text   *)
(* "timestamp") are in increasing order of their timestamps.                *)
RowsInOrder(rows) ==
    \A i, j \in 1..Len(rows) :
        (i < j /\ rows[i][1] # "timestamp" /\ rows[j][1] # "timestamp") =>
            TimeOf(rows[i]) < TimeOf(rows[j])

(* C32: Samples are in History, in the writer's buffer and in every output  *)
(* file in the order of their timestamps.                                   *)
C32_InCycleOrder ==
    /\ \A i, j \in 1..Len(data_queue) :
          i < j => data_queue[i].timestamp < data_queue[j].timestamp
    /\ RowsInOrder(buffer)
    /\ \A f \in DOMAIN files : RowsInOrder(files[f])

(* C33: once stop_logging has returned and every loop thread has exited,    *)
(* the connection pool holds no handle.                                     *)
C33_PoolEmptyAfterStop ==
    (Stopped /\ \A t \in Loops : ~Alive(t)) => connections = {}

(* C34: a retention sweep never compresses or deletes the file that is      *)
(* active: no step creates or changes the .gz of the log file that          *)
(* current_filename names, or removes that file.                            *)
C34_ActiveFileNotSwept ==
    [][(active # NoDay /\ active' = active) =>
           /\ log_dir[active].raw => log_dir'[active].raw
           /\ log_dir'[active].gz = log_dir[active].gz]_vars

(* C35: every output file that holds rows starts with the header row, also  *)
(* when set_file could not create the file.                                 *)
C35_HeaderComesFirst ==
    \A f \in DOMAIN files : files[f] # <<>> => files[f][1][1] = "timestamp"

(* A loop thread takes the rotation decision of its cycle. *)
DecidesRotation(t) == pc[t] = "top" /\ ~stop_event /\ pc'[t] \in {"cnl", "read"}

(* C36, as the code has it: for a file below 100 MB whose size can be read, *)
(* _check_file_rotation returns true exactly when there is no active file,  *)
(* its path does not exist, or at least save_interval seconds have elapsed  *)
(* since the file's creation.                                               *)
C36_RotatesWhenDue ==
    [][\A t \in Loops :
          DecidesRotation(t) =>
              (pc'[t] = "cnl" <=> \/ current_filename = NoFile
                                  \/ ~Exists(current_filename)
                                  \/ now - last_file_time >= save_interval)]_vars

(* A rotation decided for an existing file exactly save_interval seconds    *)
(* after its creation.                                                      *)
C36_Witness ==
    /\ pc[1] = "cnl"
    /\ ret[1] = "read"
    /\ current_filename # NoFile
    /\ Exists(current_filename)
    /\ now - last_file_time = save_interval

(* C36 as stated: the time condition is that the elapsed time exceeds       *)
(* save_interval.                                                           *)
C36_RotatesWhenExceeded ==
    [][\A t \in Loops :
          DecidesRotation(t) =>
              (pc'[t] = "cnl" <=> \/ current_filename = NoFile
                                  \/ ~Exists(current_filename)
                                  \/ now - last_file_time > save_interval)]_vars

(* The delays C37 states for the first to the fourth consecutive failure. *)
StatedDelays == <<30, 60, 120, 240>>

(* C37: the backoff that follows the n-th cycle failure in a row, when it   *)
(* is not cancelled, lasts 30 * 2^(n-1) seconds, for n = 1..4; there is no  *)
(* backoff after a fifth.                                                   *)
C37_BackoffDoubles ==
    \A t \in Loops :
        (pc[t] = "backoff" /\ ~stop_event) =>
            /\ loc[t].fails \in 1..4
            /\ BackoffTime(loc[t].cerr) = StatedDelays[loc[t].fails]

(* The waits C38 states after the first and the second failed attempt. *)
StatedRetryWaits == <<5, 10>>

(* C38: the wait after the k-th failed attempt on a device lasts 5 * k      *)
(* seconds and there is none after the last attempt (k = max_retries); a    *)
(* further attempt on the device is made only after that wait.              *)
C38_RetryWaits ==
    /\ [](\A t \in Loops :
            pc[t] = "retry_sleep" =>
                /\ loc[t].retries \in 1..(max_retries - 1)
                /\ loc[t].sleep = StatedRetryWaits[loc[t].retries])
    /\ [][\A t \in Loops :
            (pc[t] = "while" /\ pc'[t] = "conn" /\ loc[t].retries >= 1) =>
                loc[t].sleep = StatedRetryWaits[loc[t].retries]]_vars

(* The third attempt on a device is about to be made, after a wait of 10 s. *)
C38_Witness ==
    pc[1] = "conn" /\ loc[1].retries = 2 /\ loc[1].att[loc[1].idx] = 3

(* C39: the directory _create_new_logfile chooses is the first enumerated   *)
(* volume whose space check succeeds with at least 1 GB free, and the local *)
(* directory exactly when no enumerated volume is such.                     *)
C39_FirstVolumeWithSpace ==
    [][\A t \in Threads :
          (pc[t] = "cnl" /\ pc'[t] = "cnl_set") =>
              LET good == {i \in 1..Len(usb_drives) :
                             usb_drives[i].ok /\ usb_drives[i].free_gb >= 1}
              IN /\ base_dir' = LocalDir <=> good = {}
                 /\ base_dir' # LocalDir =>
                       (base_dir' \in good /\ \A j \in good : base_dir' <= j)]_vars

(* A file has been placed on the second volume, which has exactly 1 GB      *)
(* free, after the first was skipped.                                       *)
C39_Witness ==
    /\ pc[0] = "cnl_set"
    /\ base_dir = 2
    /\ Len(usb_drives) = 2
    /\ ~usb_drives[1].ok
    /\ usb_drives[2].ok /\ usb_drives[2].free_gb = 1

(* C40: a failed append leaves the buffer and last_flush as they were, so   *)
(* that the rows are written once by the next flush that succeeds: no data  *)
(* row is in the files twice.                                               *)
C40_RowsWrittenOnce ==
    /\ [][\A t \in Threads :
            (pc[t] = "stop_flush" /\ pc'[t] = "stop_close" /\ buffer' # <<>>) =>
                (buffer' = buffer /\ last_flush' = last_flush)]_vars
    /\ [](\A f, g \in DOMAIN files :
            \A i \in 1..Len(files[f]), j \in 1..Len(files[g]) :
                (files[f][i] = files[g][j] /\ files[f][i][1] # "timestamp") =>
                    (f = g /\ i = j))

====
